---- MODULE Spec2Model ----
(***************************************************************************)
(* Model of src/src/base_classes.py: the paging and accuracy helpers of    *)
(* SplunkClassifierBase and SplunkRegressorBase.  One object is modelled;  *)
(* its callers invoke the public methods one after the other.  The remote  *)
(* search service (jobs.create, job["resultCount"], job.results and the    *)
(* streaming ResultsReader) and the subclass hooks (train,                 *)
(* predict_splunk_search, predict_single_event, predict) are the            *)
(* environment: they answer nondeterministically, or fail.                 *)
(***************************************************************************)
EXTENDS Integers, Sequences, FiniteSets, TLC

\* ------------------------------------------------------------------ bounds
\* Page size of every paging loop.  The source fixes count = 100; the model
\* scales it down so that several pages fit in the explored state space.
count == 2
\* Largest result count a job declares.
MaxTotal == 5
\* Number of method calls the callers make on the object.
MaxCalls == 2

\* ------------------------------------------------------------- value sets
Absent == "<absent>"
\* Field values as the service returns them: all strings.  "x" is a string
\* that float() cannot parse.
Vals == {"1", "2", "x"}
FieldVals == Vals \cup {Absent}
\* self.predict raising inside check_accuracy's try block.
Raises == "<raises>"

Kinds == {"classifier", "regressor"}
Helpers == {"calculate_accuracy_from_single_events",
            "calculate_accuracy_from_splunk_prediction_search",
            "check_accuracy"}
Wrappers == {"test_accuracy_splunk_search", "test_accuracy_single_event",
             "evaluate_accuracy"}
Ops == Helpers \cup Wrappers \cup {"train"}

\* float(s) / the numeric strings of Vals
IsNumeric(s) == s \in {"1", "2"}
ParseFloat(s) == CASE s = "1" -> 1 [] s = "2" -> 2

\* job["resultCount"] is a string: a sequence of characters, which int() and
\* float() convert digit by digit and reject when a character is no digit.
Digits == <<"0", "1", "2", "3", "4", "5", "6", "7", "8", "9">>
IsDigit(c) == \E i \in 1..Len(Digits) : Digits[i] = c
DigitVal(c) == (CHOOSE i \in 1..Len(Digits) : Digits[i] = c) - 1
IsDigits(s) == Len(s) > 0 /\ \A i \in 1..Len(s) : IsDigit(s[i])
RECURSIVE ParseInt(_)
ParseInt(s) == IF s = <<>> THEN 0
               ELSE Len(Digits) * ParseInt(SubSeq(s, 1, Len(s) - 1)) + DigitVal(s[Len(s)])
\* the result counts a job can declare, and one malformed count
CountStrings == {<<Digits[d + 1]>> : d \in 0..MaxTotal} \cup {<<"x">>}

RECURSIVE SumSeq(_)
SumSeq(s) == IF s = <<>> THEN 0 ELSE Head(s) + SumSeq(Tail(s))

Min(a, b) == IF a < b THEN a ELSE b
CeilDiv(a, b) == (a + b - 1) \div b

\* ---------------------------------------------------------------- outcomes
NoOutcome == [type |-> "pending"]
\* a float num/den
Value(n, d) == [type |-> "value", num |-> n, den |-> d]
\* the classifier helpers return the pair (correct/total, correct)
ValuePair(n, d, c) == [type |-> "value", num |-> n, den |-> d, correct |-> c]
NaN == [type |-> "nan"]
None == [type |-> "None"]
\* kind: the Python exception; site: where it was raised
Error(k, s) == [type |-> "error", kind |-> k, site |-> s]

Unset == <<>>
NoJob == [state |-> "none"]

VARIABLES
  \* the object (SplunkBase.__init__)
  kind, trained, accuracy, accuracy_tested,
  \* the call in progress and its locals
  op, pc, job, result_count, total, correct, offset, squared_diffs,
  remaining, outcome,
  \* history of the call in progress
  requests, pages, nValid, nMatch, nBad, sumSq, fedIncomplete, pageN, pageK,
  pageObs, trainCalls, trainReturns, createCalls, countReads, serviceFailed,
  callsLeft

objVars == <<kind, trained, accuracy, accuracy_tested>>
locals == <<job, result_count, total, correct, offset, squared_diffs, remaining>>
pageHist == <<pageN, pageK, pageObs>>
recHist == <<nValid, nMatch, nBad, sumSq, fedIncomplete>>
callHist == <<trainCalls, trainReturns, createCalls, countReads, serviceFailed>>
vars == <<kind, trained, accuracy, accuracy_tested, op, pc, job, result_count,
          total, correct, offset, squared_diffs, remaining, outcome, requests,
          pages, nValid, nMatch, nBad, sumSq, fedIncomplete, pageN, pageK,
          pageObs, trainCalls, trainReturns, createCalls, countReads, serviceFailed, callsLeft>>

\* the helper that runs the paging loop of the call in progress
HelperOf(o) ==
  CASE o = "test_accuracy_splunk_search" -> "calculate_accuracy_from_splunk_prediction_search"
    [] o = "test_accuracy_single_event" -> "calculate_accuracy_from_single_events"
    [] o = "evaluate_accuracy" -> "check_accuracy"
    [] OTHER -> o
helper == HelperOf(op)

FreshFrame ==
  /\ job = NoJob /\ result_count = 0 /\ total = 0 /\ correct = 0 /\ offset = 0
  /\ squared_diffs = <<>> /\ remaining = 0 /\ outcome = NoOutcome
  /\ requests = <<>> /\ pages = <<>> /\ nValid = 0 /\ nMatch = 0 /\ nBad = 0
  /\ sumSq = 0 /\ fedIncomplete = FALSE
  /\ pageN = 0 /\ pageK = 0 /\ pageObs = 0
  /\ trainCalls = 0 /\ trainReturns = 0 /\ createCalls = 0 /\ countReads = 0
  /\ serviceFailed = FALSE

Init ==
  /\ kind \in Kinds
  /\ trained = FALSE
  /\ accuracy = Unset
  /\ accuracy_tested = FALSE
  /\ op = "none" /\ pc = "idle"
  /\ FreshFrame
  /\ callsLeft = MaxCalls

\* an exception leaves the call
Raise(e) == pc' = "returned" /\ outcome' = e

\* ------------------------------------------------------------ entry points
\* first statement of each public method
EntryPcSkipTrain(o) ==
  CASE o = "train" -> "train"
    [] o \in {"check_accuracy", "evaluate_accuracy"} -> "check_trained"
    [] OTHER -> "create"
EntryPc(o) ==
  CASE o \in Wrappers \cup {"train"} -> "train"
    [] o = "check_accuracy" -> "check_trained"
    [] OTHER -> "create"

\* the caller invokes a method of the object
Call(o) ==
  /\ pc = "idle" /\ callsLeft > 0
  /\ op' = o /\ pc' = EntryPc(o)
  /\ callsLeft' = callsLeft - 1
  /\ UNCHANGED <<objVars, locals, outcome, requests, pages, recHist, pageHist, callHist>>

\* statement after self.train(...) returns
AfterTrain(o) ==
  CASE o = "test_accuracy_splunk_search" -> "predict_search"
    [] o = "test_accuracy_single_event" -> "create"
    [] o = "evaluate_accuracy" -> "check_trained"
    [] OTHER -> "returned"

\* self.train(...): the subclass hook.  It returns (a subclass that trains
\* sets self.trained) or raises.
Train ==
  /\ pc = "train"
  /\ trainCalls' = trainCalls + 1
  /\ \/ /\ \E t \in {TRUE, trained} : trained' = t
        /\ trainReturns' = trainReturns + 1
        /\ pc' = AfterTrain(op)
        /\ outcome' = IF op = "train" THEN None ELSE outcome
     \/ /\ Raise(Error("TrainingError", "train"))
        /\ UNCHANGED <<trained, trainReturns>>
  /\ UNCHANGED <<kind, accuracy, accuracy_tested, op, locals, requests, pages,
                 recHist, pageHist, createCalls, countReads, serviceFailed, callsLeft>>

\* self.predict_splunk_search(...): the subclass hook building the search
PredictSplunkSearch ==
  /\ pc = "predict_search"
  /\ \/ pc' = "create" /\ UNCHANGED outcome
     \/ Raise(Error("PredictSearchError", "train"))
  /\ UNCHANGED <<objVars, op, locals, requests, pages, recHist, pageHist, callHist, callsLeft>>

\* what `raise 'classifier is not trained'` produces: a string exception
\* (Python <= 2.5) or TypeError: exceptions must be classes (Python >= 2.6)
RaiseStringKinds == {"StringException", "TypeError"}

\* if not self.trained
NotTrainedNeverRaised == FALSE
NotTrained == ~trained

\* check_accuracy step 1
CheckTrained ==
  /\ pc = "check_trained"
  /\ IF NotTrained
       THEN \E k \in RaiseStringKinds : Raise(Error(k, "usage"))
       ELSE pc' = "create" /\ UNCHANGED outcome
  /\ UNCHANGED <<objVars, op, locals, requests, pages, recHist, pageHist, callHist, callsLeft>>

\* ------------------------------------------------------------- the search job
\* a service call that fails raises into the caller
ServiceFailure ==
  /\ Raise(Error("ServiceError", "service"))
  /\ serviceFailed' = TRUE

\* job = self.jobs.create(..., exec_mode='blocking')
CreateJob ==
  /\ pc = "create"
  /\ createCalls' = createCalls + 1
  /\ \/ /\ \E c \in CountStrings : job' = [state |-> "done", resultCount |-> c]
        /\ pc' = "count"
        /\ UNCHANGED <<outcome, serviceFailed>>
     \/ ServiceFailure /\ UNCHANGED job
  /\ UNCHANGED <<objVars, op, result_count, total, correct, offset, squared_diffs,
                 remaining, requests, pages, recHist, pageHist, trainCalls,
                 trainReturns, countReads, callsLeft>>

\* total = float(job["resultCount"]) / result_count = int(job["resultCount"]),
\* then the initialisation of the loop variables.  In check_accuracy total
\* counts the scored records; in the calculate_* helpers it is the declared
\* result count.
ReadResultCount ==
  /\ pc = "count"
  /\ countReads' = countReads + 1
  /\ \/ /\ IsDigits(job.resultCount)
        /\ IF helper = "check_accuracy"
             THEN result_count' = ParseInt(job.resultCount) /\ total' = 0
             ELSE total' = ParseInt(job.resultCount) /\ UNCHANGED result_count
        /\ correct' = 0 /\ offset' = 0 /\ squared_diffs' = <<>>
        /\ pc' = "while"
        /\ UNCHANGED <<outcome, serviceFailed>>
     \/ /\ ~IsDigits(job.resultCount)
        /\ Raise(Error("ValueError", "service"))
        /\ serviceFailed' = TRUE
        /\ UNCHANGED <<result_count, total, correct, offset, squared_diffs>>
     \/ /\ ServiceFailure
        /\ UNCHANGED <<result_count, total, correct, offset, squared_diffs>>
  /\ UNCHANGED <<objVars, op, job, remaining, requests, pages, recHist, pageHist,
                 trainCalls, trainReturns, createCalls, callsLeft>>

\* the result count the job declared, as the loop reads it
Declared == IF helper = "check_accuracy" THEN result_count ELSE total

\* while (offset < total) / while (offset < result_count)
StopAtShortPage ==
  /\ offset < Declared
  /\ IF pages = <<>> THEN TRUE ELSE pages[Len(pages)] >= count
LoopContinues == offset < Declared

\* a service that fills the page beyond the declared number of results
FetchBeyondDeclared ==
  /\ pc = "while" /\ LoopContinues
  /\ requests' = Append(requests, <<offset, count>>)
  /\ \/ /\ \E n \in 0..count :
             /\ remaining' = n
             /\ pages' = Append(pages, n)
             /\ pageN' = n
        /\ pageK' = 0 /\ pageObs' = 0
        /\ pc' = "for"
        /\ UNCHANGED <<outcome, serviceFailed>>
     \/ /\ ServiceFailure
        /\ UNCHANGED <<remaining, pages, pageHist>>
  /\ UNCHANGED <<objVars, op, job, result_count, total, correct, offset,
                 squared_diffs, recHist, trainCalls, trainReturns, createCalls,
                 countReads, callsLeft>>

\* search_results = job.results(count=count, offset=offset): the service
\* answers with the records of the window, or with fewer (a truncated page)
Fetch ==
  /\ pc = "while" /\ LoopContinues
  /\ requests' = Append(requests, <<offset, count>>)
  /\ \/ /\ \E n \in 0..Min(count, Declared - offset) :
             /\ remaining' = n
             /\ pages' = Append(pages, n)
             /\ pageN' = n
        /\ pageK' = 0 /\ pageObs' = 0
        /\ pc' = "for"
        /\ UNCHANGED <<outcome, serviceFailed>>
     \/ /\ ServiceFailure
        /\ UNCHANGED <<remaining, pages, pageHist>>
  /\ UNCHANGED <<objVars, op, job, result_count, total, correct, offset,
                 squared_diffs, recHist, trainCalls, trainReturns, createCalls,
                 countReads, callsLeft>>

\* the loop condition is false: fall through to the return statement
ExitLoop ==
  /\ pc = "while" /\ ~LoopContinues
  /\ pc' = "finalize"
  /\ UNCHANGED <<objVars, op, locals, outcome, requests, pages, recHist, pageHist,
                 callHist, callsLeft>>

\* results.ResultsReader(search_results) fails while the page is iterated
ReaderFailSwallowed ==
  /\ pc = "for" /\ remaining > 0
  /\ remaining' = remaining - 1
  /\ serviceFailed' = TRUE
  /\ UNCHANGED <<objVars, op, pc, job, result_count, total, correct, offset,
                 squared_diffs, outcome, requests, pages, recHist, pageHist,
                 trainCalls, trainReturns, createCalls, countReads, callsLeft>>
ReaderFail ==
  /\ pc = "for"
  /\ ServiceFailure
  /\ UNCHANGED <<objVars, op, locals, requests, pages, recHist, pageHist,
                 trainCalls, trainReturns, createCalls, countReads, callsLeft>>

\* ------------------------------------------------------- scoring one record
\* the rows of `table X_fields Y_field` and of `table *`: the label field,
\* and whether the row has every field of X_fields
EventRecords == [y : FieldVals, x : BOOLEAN]
\* the rows of `table Y_field, test_predict_UNIQ` / `_test_predict`
PredictionRecords == [y : FieldVals, tp : FieldVals]

\* if Y_field not in result
LacksLabel(r) == r.y = Absent
\* if Y_field not in result or 'test_predict_UNIQ' not in result
LacksLabelOrPrediction(r) == r.y = Absent \/ r.tp = Absent

Sq(d) == d * d

scoreFrame == <<objVars, op, job, result_count, offset, requests, pages, pageN,
                callHist, callsLeft>>

\* classifier, calculate_accuracy_from_single_events: body of the for loop
ScoreSingleEventClassifier ==
  /\ pc = "for" /\ remaining > 0
  /\ kind = "classifier" /\ helper = "calculate_accuracy_from_single_events"
  /\ remaining' = remaining - 1
  /\ \E r \in EventRecords, prediction \in Vals :
       IF LacksLabel(r)
         THEN pageK' = pageK + 1
              /\ UNCHANGED <<correct, pageObs, nValid, nMatch, fedIncomplete>>
         ELSE /\ pageObs' = pageObs + 1
              /\ nValid' = nValid + 1
              /\ fedIncomplete' = (fedIncomplete \/ ~r.x)
              /\ IF prediction = r.y
                   THEN correct' = correct + 1 /\ nMatch' = nMatch + 1
                   ELSE UNCHANGED <<correct, nMatch>>
              /\ UNCHANGED pageK
  /\ UNCHANGED <<scoreFrame, pc, total, squared_diffs, outcome, nBad, sumSq>>

\* classifier, calculate_accuracy_from_splunk_prediction_search: loop body
ScoreSearchClassifier ==
  /\ pc = "for" /\ remaining > 0
  /\ kind = "classifier"
  /\ helper = "calculate_accuracy_from_splunk_prediction_search"
  /\ remaining' = remaining - 1
  /\ fedIncomplete' = fedIncomplete
  /\ \E r \in PredictionRecords :
       IF LacksLabelOrPrediction(r)
         THEN pageK' = pageK + 1 /\ UNCHANGED <<correct, pageObs, nValid, nMatch>>
         ELSE /\ pageObs' = pageObs + 1
              /\ nValid' = nValid + 1
              /\ IF r.y = r.tp
                   THEN correct' = correct + 1 /\ nMatch' = nMatch + 1
                   ELSE UNCHANGED <<correct, nMatch>>
              /\ UNCHANGED pageK
  /\ UNCHANGED <<scoreFrame, pc, total, squared_diffs, outcome, nBad, sumSq>>

\* the numbers a regressor's predict_single_event returns
NumPredictions == {ParseFloat(v) : v \in {w \in Vals : IsNumeric(w)}}

\* regressor, calculate_accuracy_from_single_events: loop body.  The
\* prediction is made first; float(result[Y_field]) raises ValueError on a
\* label that is no number.
ScoreSingleEventRegressor ==
  /\ pc = "for" /\ remaining > 0
  /\ kind = "regressor" /\ helper = "calculate_accuracy_from_single_events"
  /\ remaining' = remaining - 1
  /\ \E r \in EventRecords, prediction \in NumPredictions :
       IF LacksLabel(r)
         THEN /\ pageK' = pageK + 1
              /\ UNCHANGED <<pc, squared_diffs, outcome, pageObs, nValid, nMatch, nBad,
                             sumSq, fedIncomplete>>
         ELSE /\ pageObs' = pageObs + 1
              /\ nValid' = nValid + 1
              /\ fedIncomplete' = (fedIncomplete \/ ~r.x)
              /\ IF IsNumeric(r.y)
                   THEN /\ squared_diffs' =
                             Append(squared_diffs, Sq(ParseFloat(r.y) - prediction))
                        /\ nMatch' = IF ParseFloat(r.y) = prediction
                                       THEN nMatch + 1 ELSE nMatch
                        /\ sumSq' = sumSq + (ParseFloat(r.y) - prediction)
                                               * (ParseFloat(r.y) - prediction)
                        /\ UNCHANGED <<pc, outcome, nBad>>
                   ELSE /\ Raise(Error("ValueError", "record"))
                        /\ nBad' = nBad + 1
                        /\ UNCHANGED <<squared_diffs, nMatch, sumSq>>
              /\ UNCHANGED pageK
  /\ UNCHANGED <<scoreFrame, total, correct>>

\* regressor, calculate_accuracy_from_splunk_prediction_search: loop body.
\* correct is counted by string equality and never used; both fields go
\* through float().
ScoreSearchRegressor ==
  /\ pc = "for" /\ remaining > 0
  /\ kind = "regressor"
  /\ helper = "calculate_accuracy_from_splunk_prediction_search"
  /\ remaining' = remaining - 1
  /\ fedIncomplete' = fedIncomplete
  /\ \E r \in PredictionRecords :
       IF LacksLabelOrPrediction(r)
         THEN /\ pageK' = pageK + 1
              /\ UNCHANGED <<pc, correct, squared_diffs, outcome, pageObs, nValid,
                             nMatch, nBad, sumSq>>
         ELSE /\ nValid' = nValid + 1
              /\ correct' = IF r.y = r.tp THEN correct + 1 ELSE correct
              /\ IF IsNumeric(r.y) /\ IsNumeric(r.tp)
                   THEN /\ squared_diffs' =
                             Append(squared_diffs, Sq(ParseFloat(r.y) - ParseFloat(r.tp)))
                        /\ pageObs' = pageObs + 1
                        /\ nMatch' = IF ParseFloat(r.y) = ParseFloat(r.tp)
                                       THEN nMatch + 1 ELSE nMatch
                        /\ sumSq' = sumSq + (ParseFloat(r.y) - ParseFloat(r.tp))
                                               * (ParseFloat(r.y) - ParseFloat(r.tp))
                        /\ UNCHANGED <<pc, outcome, nBad>>
                   ELSE /\ Raise(Error("ValueError", "record"))
                        /\ nBad' = nBad + 1
                        /\ UNCHANGED <<squared_diffs, pageObs, nMatch, sumSq>>
              /\ UNCHANGED pageK
  /\ UNCHANGED <<scoreFrame, total>>

\* check_accuracy without the try: a record that cannot be scored is counted
ScoreCheckAccuracyCountsFailures ==
  /\ pc = "for" /\ remaining > 0
  /\ helper = "check_accuracy"
  /\ remaining' = remaining - 1
  /\ \E r \in EventRecords, prediction \in Vals \cup {Raises} :
       IF LacksLabel(r) \/ prediction = Raises
         THEN pageK' = pageK + 1 /\ total' = total + 1
              /\ UNCHANGED <<correct, pageObs, nValid, nMatch>>
         ELSE /\ total' = total + 1
              /\ pageObs' = pageObs + 1
              /\ nValid' = nValid + 1
              /\ IF r.y = prediction
                   THEN correct' = correct + 1 /\ nMatch' = nMatch + 1
                   ELSE UNCHANGED <<correct, nMatch>>
              /\ UNCHANGED pageK
  /\ UNCHANGED <<scoreFrame, pc, squared_diffs, outcome, nBad, sumSq, fedIncomplete>>

\* check_accuracy (both classes): the try block of the loop body.
\* result[class_field] raises KeyError on a record without the field and
\* self.predict may raise; the bare except continues with the next record.
ScoreCheckAccuracy ==
  /\ pc = "for" /\ remaining > 0
  /\ helper = "check_accuracy"
  /\ remaining' = remaining - 1
  /\ \E r \in EventRecords, prediction \in Vals \cup {Raises} :
       IF LacksLabel(r) \/ prediction = Raises
         THEN pageK' = pageK + 1
              /\ UNCHANGED <<correct, total, pageObs, nValid, nMatch>>
         ELSE /\ total' = total + 1
              /\ pageObs' = pageObs + 1
              /\ nValid' = nValid + 1
              /\ IF r.y = prediction
                   THEN correct' = correct + 1 /\ nMatch' = nMatch + 1
                   ELSE UNCHANGED <<correct, nMatch>>
              /\ UNCHANGED pageK
  /\ UNCHANGED <<scoreFrame, pc, squared_diffs, outcome, nBad, sumSq, fedIncomplete>>

\* ------------------------------------------------------------ end of a page
\* offset += count (calculate_* helpers; the print of offset cannot fail)
EndPage ==
  /\ pc = "for" /\ remaining = 0
  /\ helper # "check_accuracy"
  /\ offset' = offset + count
  /\ pc' = "while"
  /\ UNCHANGED <<objVars, op, job, result_count, total, correct, squared_diffs,
                 remaining, outcome, requests, pages, recHist, pageHist, callHist,
                 callsLeft>>

\* check_accuracy: offset += count, then
\* print "curr acc: %f" % (float(correct) / total), which divides by zero
\* while no record has been scored
EndPageCheckAccuracy ==
  /\ pc = "for" /\ remaining = 0
  /\ helper = "check_accuracy"
  /\ offset' = offset + count
  /\ IF total = 0
       THEN Raise(Error("ZeroDivisionError", "progress"))
       ELSE pc' = "while" /\ UNCHANGED outcome
  /\ UNCHANGED <<objVars, op, job, result_count, total, correct, squared_diffs,
                 remaining, requests, pages, recHist, pageHist, callHist, callsLeft>>

\* ------------------------------------------------------------------ return
\* classifier: return correct/total, correct - a float division; the
\* test_accuracy_* wrappers print both and return the accuracy
FinalizeClassifier ==
  /\ pc = "finalize"
  /\ kind = "classifier" /\ helper # "check_accuracy"
  /\ IF total = 0
       THEN Raise(Error("ZeroDivisionError", "aggregate"))
       ELSE /\ pc' = "returned"
            /\ outcome' = IF op \in Wrappers THEN Value(correct, total)
                                              ELSE ValuePair(correct, total, correct)
  /\ UNCHANGED <<objVars, op, locals, requests, pages, recHist, pageHist, callHist,
                 callsLeft>>

\* .5 * np.average(squared_diffs); numpy's average of an empty list is nan
RegressionMetricNotHalved(sq) ==
  IF sq = <<>> THEN NaN ELSE Value(SumSeq(sq), Len(sq))
RegressionMetric(sq) ==
  IF sq = <<>> THEN NaN ELSE Value(SumSeq(sq), 2 * Len(sq))

\* regressor: return .5 * np.average(squared_diffs)
FinalizeRegressor ==
  /\ pc = "finalize"
  /\ kind = "regressor" /\ helper # "check_accuracy"
  /\ pc' = "returned"
  /\ outcome' = RegressionMetric(squared_diffs)
  /\ UNCHANGED <<objVars, op, locals, requests, pages, recHist, pageHist, callHist,
                 callsLeft>>

\* check_accuracy marking the object as tested before the division
FinalizeCheckAccuracyMarksFirst ==
  /\ pc = "finalize"
  /\ helper = "check_accuracy"
  /\ accuracy_tested' = TRUE
  /\ IF total = 0
       THEN /\ Raise(Error("ZeroDivisionError", "aggregate"))
            /\ UNCHANGED accuracy
       ELSE /\ accuracy' = <<correct, total>>
            /\ pc' = "returned"
            /\ outcome' = IF op = "evaluate_accuracy" THEN None
                                                      ELSE Value(correct, total)
  /\ UNCHANGED <<kind, trained, op, locals, requests, pages, recHist, pageHist,
                 callHist, callsLeft>>

\* check_accuracy steps 4 and 5; evaluate_accuracy prints the value and
\* returns nothing
FinalizeCheckAccuracy ==
  /\ pc = "finalize"
  /\ helper = "check_accuracy"
  /\ IF total = 0
       THEN /\ Raise(Error("ZeroDivisionError", "aggregate"))
            /\ UNCHANGED <<accuracy, accuracy_tested>>
       ELSE /\ accuracy' = <<correct, total>>
            /\ accuracy_tested' = TRUE
            /\ pc' = "returned"
            /\ outcome' = IF op = "evaluate_accuracy" THEN None
                                                      ELSE Value(correct, total)
  /\ UNCHANGED <<kind, trained, op, locals, requests, pages, recHist, pageHist,
                 callHist, callsLeft>>

\* the caller has the result or the exception; the locals are gone
Retire ==
  /\ pc = "returned"
  /\ pc' = "idle" /\ op' = "none"
  /\ job' = NoJob /\ result_count' = 0 /\ total' = 0 /\ correct' = 0 /\ offset' = 0
  /\ squared_diffs' = <<>> /\ remaining' = 0 /\ outcome' = NoOutcome
  /\ requests' = <<>> /\ pages' = <<>> /\ nValid' = 0 /\ nMatch' = 0 /\ nBad' = 0
  /\ sumSq' = 0 /\ fedIncomplete' = FALSE
  /\ pageN' = 0 /\ pageK' = 0 /\ pageObs' = 0
  /\ trainCalls' = 0 /\ trainReturns' = 0 /\ createCalls' = 0 /\ countReads' = 0
  /\ serviceFailed' = FALSE
  /\ UNCHANGED <<objVars, callsLeft>>

Next ==
  \/ \E o \in Ops : Call(o)
  \/ Train
  \/ PredictSplunkSearch
  \/ CheckTrained
  \/ CreateJob
  \/ ReadResultCount
  \/ Fetch
  \/ ExitLoop
  \/ ReaderFail
  \/ ScoreSingleEventClassifier
  \/ ScoreSearchClassifier
  \/ ScoreSingleEventRegressor
  \/ ScoreSearchRegressor
  \/ ScoreCheckAccuracy
  \/ EndPage
  \/ EndPageCheckAccuracy
  \/ FinalizeClassifier
  \/ FinalizeRegressor
  \/ FinalizeCheckAccuracy
  \/ Retire

Spec == Init /\ [][Next]_vars

\* ================================================================== claims
CalcHelpers == {"calculate_accuracy_from_single_events",
                "calculate_accuracy_from_splunk_prediction_search"}

\* the requests a complete paging of T declared results issues
FullRequests(T) == [i \in 1..CeilDiv(T, count) |-> <<(i - 1) * count, count>>]
\* the page lengths a service that truncates nothing returns for them
FullPages(T) == [i \in 1..CeilDiv(T, count) |-> Min(count, T - (i - 1) * count)]
\* some page came back shorter than its window of the declared results
Truncated ==
  \E i \in 1..Len(pages) : pages[i] < Min(count, Declared - (i - 1) * count)

\* the call is over, every service call of it succeeded and every page came
\* back in full
RunEnded == pc = "returned" /\ countReads = 1 /\ ~serviceFailed /\ ~Truncated
\* the call returned normally
Returned == pc = "returned" /\ outcome.type \in {"value", "nan", "None"}
IsError(site) == outcome.type = "error" /\ outcome.site = site

\* C1: in every evaluation helper, with a service that fails no call and
\* serves a stable result set, the requests issued to job.results are exactly
\* (0, C), (C, C), (2C, C), ... for all multiples of C below the declared
\* result count T, and the pages hold C records each, the last one T mod C
\* (C when T mod C = 0).
C1_PaginationComplete ==
  RunEnded =>
    /\ requests = FullRequests(Declared)
    /\ pages = FullPages(Declared)

\* C2: the accuracy the classifier's calculate_* helpers return equals
\* (matching valid records) / (valid records observed).
C2_AccuracyIsMatchesOverValid ==
  (RunEnded /\ kind = "classifier" /\ helper \in CalcHelpers
     /\ outcome.type = "value")
    => /\ nValid > 0
       /\ outcome.num * nValid = nMatch * outcome.den

\* C3: an evaluation run that observed zero valid records ends in an explicit
\* error, never in a returned 0, 0.0 or NaN.
C3_UndefinedAggregateSignalled ==
  (RunEnded /\ nValid = 0) => outcome.type = "error"

\* the iteration of the current page is over: the reader is exhausted, or
\* scoring a record raised
PageEnded == \/ pc = "for" /\ remaining = 0
             \/ pc = "returned" /\ IsError("record")

\* C4: of a page of n records of which k lack a required field, exactly n-k
\* observations reach the scorer (predict_single_event calls in per-event
\* mode, comparisons / squared differences in search-based mode).
C4_SkipTransparency ==
  (helper \in CalcHelpers /\ PageEnded /\ ~Truncated) => pageObs = pageN - pageK

\* C5: in the regressor's calculate_* helpers a record whose label or
\* prediction field is no number is skipped: the remaining pages are fetched
\* and the run returns the statistic of the other records.
C5_UnparsableRecordSkipped ==
  (kind = "regressor" /\ helper \in CalcHelpers /\ RunEnded /\ nBad > 0)
    => /\ Returned
       /\ requests = FullRequests(Declared)

\* C6: check_accuracy, when no service call fails, pages through to
\* offset >= result_count whatever the distribution of the skipped records is,
\* and returns correct/total when at least one record was scored.
C6_SkipsNeverEndTheRun ==
  (helper = "check_accuracy" /\ RunEnded)
    => /\ requests = FullRequests(result_count)
       /\ (nValid > 0 => Returned)

PhaseRank(p) ==
  CASE p = "idle" -> 0
    [] p = "train" -> 1
    [] p \in {"predict_search", "check_trained"} -> 2
    [] p = "create" -> 3
    [] p = "count" -> 4
    [] p \in {"while", "for"} -> 5
    [] p = "finalize" -> 6
    [] p = "returned" -> 7

C7_PhaseInvariant ==
  /\ trainCalls <= 1 /\ createCalls <= 1 /\ countReads <= 1
  /\ (op \in Wrappers /\ (createCalls > 0 \/ PhaseRank(pc) \in 3..6))
       => trainCalls = 1 /\ trainReturns = 1
  /\ requests # <<>> => createCalls = 1 /\ countReads = 1
  /\ (op \in Wrappers /\ Returned)
       => /\ trainCalls = 1 /\ createCalls = 1 /\ countReads = 1
          /\ offset >= Declared

C7_PhaseStep ==
  /\ pc # "returned" => PhaseRank(pc') >= PhaseRank(pc)
  /\ pc \in {"while", "for"} => offset' >= offset
  /\ (outcome.type = "pending" /\ outcome'.type \in {"value", "nan", "None"}
        /\ op \in Wrappers)
       => pc = "finalize" /\ offset >= Declared

\* C7: in test_accuracy_splunk_search, test_accuracy_single_event and
\* evaluate_accuracy the phases only advance: train is called once and returns
\* before the one job submission, the result count is read before the first
\* page fetch, the offset never decreases while paging, and the statistic is
\* produced only once offset >= total.
C7_PhaseOrdering == []C7_PhaseInvariant /\ [][C7_PhaseStep]_vars

C7_Witness ==
  /\ op \in Wrappers /\ pc = "returned" /\ outcome.type = "value"
  /\ Len(requests) > 1 /\ ~Truncated /\ nValid > count

\* C8 as stated: a page shorter than count is the last page requested.
C8_ShortPageIsFinal ==
  \A i \in 1..Len(pages) : pages[i] < count => Len(requests) = i

\* C8 as amended: a short page does not end the paging; a call that returns
\* has requested every page of the declared result count, offset by offset,
\* whatever the lengths of the pages were.
C8_ShortPageIsNotFinal ==
  (Returned /\ op # "train")
    => /\ requests = FullRequests(Declared)
       /\ Len(pages) = Len(requests)
       /\ offset >= Declared

C8_Witness ==
  /\ Returned /\ op # "train"
  /\ \E i \in 1..Len(pages) : pages[i] < count /\ i < Len(pages)

C9_UsageErrorInvariant ==
  outcome.type = "error" =>
    /\ outcome.site = "usage" <=> outcome.kind \in RaiseStringKinds
    /\ outcome.site = "usage" => createCalls = 0 /\ requests = <<>>

C9_UntrainedStep ==
  (pc = "check_trained" /\ ~trained) =>
    /\ pc' = "returned"
    /\ outcome'.type = "error" /\ outcome'.site = "usage"
    /\ createCalls' = 0 /\ requests' = <<>>
    /\ accuracy' = accuracy /\ accuracy_tested' = accuracy_tested

\* C9: check_accuracy on an object whose trained flag is false raises a usage
\* error of a kind no data or service error has, before any job is submitted
\* or page fetched, and leaves accuracy and accuracy_tested as they were.
C9_UntrainedIsUsageError == []C9_UsageErrorInvariant /\ [][C9_UntrainedStep]_vars

C9_Witness ==
  /\ op = "check_accuracy" /\ pc = "returned" /\ IsError("usage")
  /\ kind = "regressor"

C10_FailedInvariant ==
  serviceFailed => pc = "returned" /\ IsError("service")

C10_FailedStep ==
  (serviceFailed \/ serviceFailed') =>
    /\ accuracy' = accuracy /\ accuracy_tested' = accuracy_tested
    /\ Len(pages') <= Len(pages)
    /\ serviceFailed => Len(requests') <= Len(requests)

\* C10: a failure of jobs.create, of reading the result count, of job.results
\* or of the results reader ends the call in a propagated error: no statistic
\* is returned, no further page is fetched, accuracy and accuracy_tested are
\* not set.
C10_ServiceErrorsAreFatal == []C10_FailedInvariant /\ [][C10_FailedStep]_vars

C10_Witness ==
  /\ serviceFailed /\ helper = "check_accuracy"
  /\ Len(pages) > 1 /\ nValid > 0

\* the float a/b equals the float c/d
SameRatio(a, b, c, d) == a * d = c * b

C11_Examples ==
  LET one == RegressionMetric(<<4>>)
      two == RegressionMetric(<<4, 0, 1, 9>>)
  IN /\ SameRatio(one.num, one.den, 2, 1)
     /\ SameRatio(two.num, two.den, 7, 4)

\* C11: a call of the regressor's calculate_* helpers that scored at least one
\* record, all of them numbers, returns 0.5 * (sum of (actual - predicted)^2
\* over the valid records) / (number of valid records), over any number of
\* pages; squared errors 4, 0, 1, 9 give 1.75 and a single error 2 gives 2.
C11_RegressionMetric ==
  /\ C11_Examples
  /\ (kind = "regressor" /\ helper \in CalcHelpers /\ pc = "returned"
       /\ countReads = 1 /\ ~serviceFailed /\ nBad = 0 /\ nValid > 0)
      => /\ outcome.type = "value"
         /\ SameRatio(outcome.num, outcome.den, sumSq, 2 * nValid)

C11_Witness ==
  /\ kind = "regressor" /\ helper \in CalcHelpers /\ pc = "returned"
  /\ outcome.type = "value" /\ Len(pages) > 1 /\ ~Truncated
  /\ nValid > count /\ sumSq > 1 /\ sumSq < nValid

\* C12: in per-event mode predict_single_event is called only on records
\* that have the label field and every feature field of X_fields; a record
\* missing a feature field is skipped.
C12_PredictOnlyCompleteRecords ==
  (helper = "calculate_accuracy_from_single_events" /\ ~Truncated)
    => ~fedIncomplete

InUnitInterval(v) == v.type = "value" => 0 <= v.num /\ v.num <= v.den /\ v.den > 0

C15_NoRecordError ==
  helper = "check_accuracy" => ~IsError("record")

C15_RecordStep ==
  (helper = "check_accuracy" /\ pc = "for" /\ remaining' = remaining - 1
     /\ ~serviceFailed')
    => /\ pc' = "for" /\ outcome' = outcome
       /\ \/ /\ pageK' = pageK + 1 /\ pageObs' = pageObs
             /\ correct' = correct /\ total' = total
          \/ /\ pageObs' = pageObs + 1 /\ pageK' = pageK
             /\ total' = total + 1
             /\ correct' - correct = nMatch' - nMatch
             /\ correct' - correct \in {0, 1}

\* C15: in check_accuracy a record whose scoring raises (no class field, or
\* the prediction call fails) changes neither correct nor total and the loop
\* goes on with the next record of the page; a record scored without an
\* exception adds exactly 1 to total, and 1 to correct iff label = prediction.
C15_PerRecordSuppression == []C15_NoRecordError /\ [][C15_RecordStep]_vars

\* a page of check_accuracy with a suppressed record followed by a scored one
C15_Witness ==
  /\ helper = "check_accuracy" /\ pc = "for"
  /\ pageK > 0 /\ pageObs > 0 /\ 0 < correct /\ correct < total

\* the paging loop of the call is over and no service call of it failed
LoopOver == pc \in {"finalize", "returned"} /\ countReads = 1 /\ ~serviceFailed

\* C16: when every service call returns, the paging loop of every helper ends
\* after exactly ceil(T / count) page fetches for the declared result count T
\* (none when T = 0), whatever the pages hold and however many records are
\* skipped.
C16_PagingTerminates ==
  LoopOver => Len(requests) = CeilDiv(Declared, count)

C17_PublishedInvariant ==
  /\ accuracy_tested <=> accuracy # Unset
  /\ (helper = "check_accuracy" /\ Returned)
       => /\ accuracy_tested /\ accuracy = <<correct, total>>
          /\ offset >= result_count
          /\ op = "check_accuracy" => outcome = Value(accuracy[1], accuracy[2])

C17_PublishStep ==
  /\ (accuracy' # accuracy \/ accuracy_tested' # accuracy_tested)
       => /\ helper = "check_accuracy" /\ pc = "finalize" /\ Returned'
          /\ offset >= result_count
          /\ accuracy_tested' /\ accuracy' = <<correct, total>>
  /\ (HelperOf(op') \in CalcHelpers \/ outcome'.type = "error")
       => accuracy' = accuracy /\ accuracy_tested' = accuracy_tested

\* C17: accuracy_tested is true only after a check_accuracy call ran its
\* paging loop to offset >= result_count, and the stored accuracy is then the
\* correct/total of the most recently completed check_accuracy; a
\* check_accuracy that ends in an error and every test_accuracy_* call leave
\* accuracy and accuracy_tested unchanged.
C17_PublishedAccuracy == []C17_PublishedInvariant /\ [][C17_PublishStep]_vars

\* a published accuracy that outlived a later check_accuracy ending in an error
C17_Witness ==
  /\ accuracy_tested /\ accuracy[1] > 0
  /\ helper = "check_accuracy" /\ pc = "returned" /\ IsError("progress")

\* ============================================== two calls on one object
\* SpecTwoCalls: two calls of the calculate_* helpers run on the same object,
\* back to back or interleaved statement by statement (which includes every
\* interleaving at page boundaries).  Here the locals are indexed: op, pc, job,
\* outcome and the histories by the call, the accumulators total, correct,
\* offset, squared_diffs and the reader position by the frame holding them.
TwoCalls == {1, 2}
\* the declared result counts: up to two pages
TwoCallsCounts == {<<Digits[d + 1]>> : d \in 0..(count + 1)}

\* correct, total, offset, squared_diffs are locals of the function: every
\* invocation has a frame of its own
FrameShared(c) == 1
Frame(c) == c

twoCallsFrozen == <<kind, trained, accuracy, accuracy_tested, result_count,
                    requests, pages, fedIncomplete, pageN, pageK, pageObs,
                    trainCalls, trainReturns, createCalls, countReads,
                    serviceFailed, callsLeft>>

InitTwoCalls ==
  /\ kind \in Kinds
  /\ trained = FALSE /\ accuracy = Unset /\ accuracy_tested = FALSE
  /\ op = [c \in TwoCalls |-> "none"]
  /\ pc = [c \in TwoCalls |-> "idle"]
  /\ job = [c \in TwoCalls |-> NoJob]
  /\ outcome = [c \in TwoCalls |-> NoOutcome]
  /\ total = [f \in TwoCalls |-> 0]
  /\ correct = [f \in TwoCalls |-> 0]
  /\ offset = [f \in TwoCalls |-> 0]
  /\ squared_diffs = [f \in TwoCalls |-> <<>>]
  /\ remaining = [f \in TwoCalls |-> 0]
  /\ nValid = [c \in TwoCalls |-> 0]
  /\ nMatch = [c \in TwoCalls |-> 0]
  /\ nBad = [c \in TwoCalls |-> 0]
  /\ sumSq = [c \in TwoCalls |-> 0]
  /\ result_count = 0 /\ requests = <<>> /\ pages = <<>>
  /\ fedIncomplete = FALSE /\ pageN = 0 /\ pageK = 0 /\ pageObs = 0
  /\ trainCalls = 0 /\ trainReturns = 0 /\ createCalls = 0 /\ countReads = 0
  /\ serviceFailed = FALSE /\ callsLeft = 0

\* job = self.jobs.create(...); correct = 0; total = float(job["resultCount"]);
\* offset = 0; squared_diffs = []
StartCall(c) ==
  /\ pc[c] = "idle"
  /\ \E h \in CalcHelpers, n \in TwoCallsCounts :
       /\ op' = [op EXCEPT ![c] = h]
       /\ job' = [job EXCEPT ![c] = [state |-> "done", resultCount |-> n]]
       /\ total' = [total EXCEPT ![Frame(c)] = ParseInt(n)]
  /\ correct' = [correct EXCEPT ![Frame(c)] = 0]
  /\ offset' = [offset EXCEPT ![Frame(c)] = 0]
  /\ squared_diffs' = [squared_diffs EXCEPT ![Frame(c)] = <<>>]
  /\ pc' = [pc EXCEPT ![c] = "while"]
  /\ UNCHANGED <<twoCallsFrozen, remaining, outcome, nValid, nMatch, nBad, sumSq>>

\* while (offset < total): search_results = job.results(count, offset)
FetchPage(c) ==
  /\ pc[c] = "while"
  /\ offset[Frame(c)] < total[Frame(c)]
  /\ remaining' = [remaining EXCEPT ![Frame(c)] =
                     Min(count, ParseInt(job[c].resultCount) - offset[Frame(c)])]
  /\ pc' = [pc EXCEPT ![c] = "for"]
  /\ UNCHANGED <<twoCallsFrozen, op, job, total, correct, offset, squared_diffs,
                 outcome, nValid, nMatch, nBad, sumSq>>

\* the prediction compared with the label: predict_single_event's value in
\* per-event mode, the synthetic field in search-based mode
ScoredPairs(h) ==
  IF h = "calculate_accuracy_from_single_events"
    THEN {<<r.y, p>> : r \in EventRecords, p \in Vals}
    ELSE {<<r.y, r.tp>> : r \in PredictionRecords}

\* classifier helpers: body of the for loop
ScoreRecordClassifier(c) ==
  /\ pc[c] = "for" /\ kind = "classifier"
  /\ remaining[Frame(c)] > 0
  /\ remaining' = [remaining EXCEPT ![Frame(c)] = @ - 1]
  /\ \E yp \in ScoredPairs(op[c]) :
       IF yp[1] = Absent \/ yp[2] = Absent
         THEN UNCHANGED <<correct, nValid, nMatch>>
         ELSE /\ nValid' = [nValid EXCEPT ![c] = @ + 1]
              /\ IF yp[1] = yp[2]
                   THEN /\ correct' = [correct EXCEPT ![Frame(c)] = @ + 1]
                        /\ nMatch' = [nMatch EXCEPT ![c] = @ + 1]
                   ELSE UNCHANGED <<correct, nMatch>>
  /\ UNCHANGED <<twoCallsFrozen, op, pc, job, total, offset, squared_diffs,
                 outcome, nBad, sumSq>>

\* regressor helpers: body of the for loop
ScoreRecordRegressor(c) ==
  /\ pc[c] = "for" /\ kind = "regressor"
  /\ remaining[Frame(c)] > 0
  /\ remaining' = [remaining EXCEPT ![Frame(c)] = @ - 1]
  /\ \E yp \in {q \in ScoredPairs(op[c]) :
                   op[c] = "calculate_accuracy_from_single_events"
                     => IsNumeric(q[2])} :
       IF yp[1] = Absent \/ yp[2] = Absent
         THEN UNCHANGED <<pc, squared_diffs, outcome, nValid, nBad, sumSq>>
         ELSE /\ nValid' = [nValid EXCEPT ![c] = @ + 1]
              /\ IF IsNumeric(yp[1]) /\ IsNumeric(yp[2])
                   THEN /\ squared_diffs' =
                             [squared_diffs EXCEPT ![Frame(c)] =
                               Append(@, Sq(ParseFloat(yp[1]) - ParseFloat(yp[2])))]
                        /\ sumSq' = [sumSq EXCEPT ![c] =
                             @ + (ParseFloat(yp[1]) - ParseFloat(yp[2]))
                                   * (ParseFloat(yp[1]) - ParseFloat(yp[2]))]
                        /\ UNCHANGED <<pc, outcome, nBad>>
                   ELSE /\ pc' = [pc EXCEPT ![c] = "returned"]
                        /\ outcome' = [outcome EXCEPT ![c] =
                                          Error("ValueError", "record")]
                        /\ nBad' = [nBad EXCEPT ![c] = @ + 1]
                        /\ UNCHANGED <<squared_diffs, sumSq>>
  /\ UNCHANGED <<twoCallsFrozen, op, job, total, correct, offset, nMatch>>

\* offset += count
NextPage(c) ==
  /\ pc[c] = "for"
  /\ remaining[Frame(c)] = 0
  /\ offset' = [offset EXCEPT ![Frame(c)] = @ + count]
  /\ pc' = [pc EXCEPT ![c] = "while"]
  /\ UNCHANGED <<twoCallsFrozen, op, job, total, correct, squared_diffs, remaining,
                 outcome, nValid, nMatch, nBad, sumSq>>

\* the return statement of the calculate_* helpers
ReturnStatistic(c) ==
  /\ pc[c] = "while"
  /\ ~(offset[Frame(c)] < total[Frame(c)])
  /\ pc' = [pc EXCEPT ![c] = "returned"]
  /\ outcome' = [outcome EXCEPT ![c] =
        IF kind = "regressor" THEN RegressionMetric(squared_diffs[Frame(c)])
        ELSE IF total[Frame(c)] = 0 THEN Error("ZeroDivisionError", "aggregate")
        ELSE ValuePair(correct[Frame(c)], total[Frame(c)], correct[Frame(c)])]
  /\ UNCHANGED <<twoCallsFrozen, op, job, total, correct, offset, squared_diffs,
                 remaining, nValid, nMatch, nBad, sumSq>>

NextTwoCalls ==
  \E c \in TwoCalls :
    \/ StartCall(c)
    \/ FetchPage(c)
    \/ ScoreRecordClassifier(c)
    \/ ScoreRecordRegressor(c)
    \/ NextPage(c)
    \/ ReturnStatistic(c)

SpecTwoCalls == InitTwoCalls /\ [][NextTwoCalls]_vars

\* what call c returns when it runs alone on its own result set
AloneOutcome(c) ==
  LET T == ParseInt(job[c].resultCount)
  IN IF kind = "classifier"
       THEN IF T = 0 THEN Error("ZeroDivisionError", "aggregate")
                     ELSE ValuePair(nMatch[c], T, nMatch[c])
       ELSE IF nBad[c] > 0 THEN Error("ValueError", "record")
            ELSE IF nValid[c] = 0 THEN NaN
            ELSE Value(sumSq[c], 2 * nValid[c])

\* C13: the accumulators start at zero / empty in every call and are private
\* to it: of two calls on one object, back to back or interleaved, each
\* returns the statistic it returns when run alone on its own result set.
C13_AccumulatorIsolation ==
  \A c \in TwoCalls :
    /\ pc[c] = "returned" => outcome[c] = AloneOutcome(c)
    /\ (pc[c] = "while" /\ offset[Frame(c)] = 0)
         => correct[Frame(c)] = 0 /\ squared_diffs[Frame(c)] = <<>>

\* both calls were under way together and both returned a statistic of
\* scored records
C13_Witness ==
  /\ \A c \in TwoCalls : pc[c] = "returned" /\ outcome[c].type = "value"
                            /\ nValid[c] > count
  /\ kind = "classifier" /\ nMatch[1] > nMatch[2] /\ nMatch[2] > 0

====
